---------------------------- MODULE Spec2Model ----------------------------
(***************************************************************************)
(* Model of Raistv5.py: the commitment store, the cosine similarity, the   *)
(* context engine, the canned producer, the Gokden rule validator, the     *)
(* consensus check, the evolution cycle, the rhythmic audit and the red    *)
(* code protocol.                                                          *)
(*                                                                         *)
(* Number representation.  Vector components are integers in hundredths    *)
(* (0.85 is 85).  Similarities, scores and drift thresholds are integers   *)
(* in units of 1/Scale (0.90 is 9000), truncated.  Strings that the code   *)
(* inspects (lower(), "in", startswith) are sequences of Unicode code      *)
(* points; strings that are only carried along are TLA+ strings.           *)
(***************************************************************************)
EXTENDS Integers, Sequences, FiniteSets, TLC

VARIABLES
    vectors,                  \* DynamicVectorStore.vectors, in insertion order
    commitments_count,        \* EvolutionEngine.commitments_count
    cycles_since_last_audit,  \* EvolutionEngine.cycles_since_last_audit
    DRIFT_THRESHOLD,          \* EvolutionEngine.DRIFT_THRESHOLD (an attribute)
    red_code_fired,           \* history: _red_code_protocol has been invoked
    last,                     \* observation of the last call and its outcome
    probe,                    \* inputs of the function specifications
    cycle_calls,              \* history: evolve_self calls so far, modulo AUDIT_RHYTHM
    pc                        \* position of the caller's script

vars == <<vectors, commitments_count, cycles_since_last_audit, DRIFT_THRESHOLD,
          red_code_fired, last, probe, cycle_calls, pc>>

-----------------------------------------------------------------------------
(* Bounds of the model *)

MaxStore == 7        \* no add is attempted beyond this many records
MaxSeeds == 3        \* the stores of the retrieval specification hold up to this many

-----------------------------------------------------------------------------
(* Configuration of EvolutionEngine.__init__ *)

Scale == 100 * 100
ETHICAL_IDEAL_VECTOR == <<100, 100, 80, 70>>
DRIFT_THRESHOLD_DEFAULT == 7000
DRIFT_THRESHOLD_DEMO == 9000
AUDIT_RHYTHM == 3
CONSENSUS_NODES == <<"Alpha", "Beta", "Gamma">>
CONSENSUS_MAJORITY == 2
MIN_AUDIT_SAMPLES == 5
RETRIEVAL_THRESHOLD == 7500

Null == [none |-> TRUE]

-----------------------------------------------------------------------------
(* Strings as code points *)

\* "gefährlich"
KW_GEFAEHRLICH ==
  <<103, 101, 102, 228, 104, 114, 108, 105, 99, 104>>
\* "kontrollverlust"
KW_KONTROLLVERLUST ==
  <<107, 111, 110, 116, 114, 111, 108, 108, 118, 101, 114, 108, 117, 115, 116>>
\* "ethik"
KW_ETHIK ==
  <<101, 116, 104, 105, 107>>
\* "[RHYTHMUS-AUDIT]"
AUDIT_TAG ==
  <<91, 82, 72, 89, 84, 72, 77, 85, 83, 45, 65, 85, 68, 73, 84, 93>>
\* "[RHYTHMUS-AUDIT] System-Drift-Korrektur erforderlich."
RE_ANCHOR_PROMPT ==
  <<91, 82, 72, 89, 84, 72, 77, 85, 83, 45, 65, 85, 68, 73, 84, 93,
    32, 83, 121, 115, 116, 101, 109, 45, 68, 114, 105, 102, 116, 45, 75, 111,
    114, 114, 101, 107, 116, 117, 114, 32, 101, 114, 102, 111, 114, 100, 101, 114,
    108, 105, 99, 104, 46>>
\* "RHYTHMUS-AUDIT"
AUDIT_QUERY ==
  <<82, 72, 89, 84, 72, 77, 85, 83, 45, 65, 85, 68, 73, 84>>
\* "Aktueller Benutzer-Query: "
PROMPT_HEAD ==
  <<65, 107, 116, 117, 101, 108, 108, 101, 114, 32, 66, 101, 110, 117, 116, 122,
    101, 114, 45, 81, 117, 101, 114, 121, 58, 32>>
\* "Welche ethischen Standards gelten für zukünftige Evolution?"
QUERY_1 ==
  <<87, 101, 108, 99, 104, 101, 32, 101, 116, 104, 105, 115, 99, 104, 101, 110,
    32, 83, 116, 97, 110, 100, 97, 114, 100, 115, 32, 103, 101, 108, 116, 101,
    110, 32, 102, 252, 114, 32, 122, 117, 107, 252, 110, 102, 116, 105, 103, 101,
    32, 69, 118, 111, 108, 117, 116, 105, 111, 110, 63>>
\* "Was passiert bei einem Kontrollverlust?"
QUERY_2 ==
  <<87, 97, 115, 32, 112, 97, 115, 115, 105, 101, 114, 116, 32, 98, 101, 105,
    32, 101, 105, 110, 101, 109, 32, 75, 111, 110, 116, 114, 111, 108, 108, 118,
    101, 114, 108, 117, 115, 116, 63>>
\* "Was verlangt die Ethik?"
QUERY_ETHIK ==
  <<87, 97, 115, 32, 118, 101, 114, 108, 97, 110, 103, 116, 32, 100, 105, 101,
    32, 69, 116, 104, 105, 107, 63>>

\* str.lower() on one code point: A-Z and the Latin-1 capitals
LowerChar(c) ==
    IF (c >= 65 /\ c <= 90) \/ (c >= 192 /\ c <= 222 /\ c # 215)
    THEN c + 32 ELSE c

\* str.lower()
Lower(s) == [i \in 1..Len(s) |-> LowerChar(s[i])]

\* str.startswith(prefix)
StartsWith(s, prefix) ==
    /\ Len(prefix) <= Len(s)
    /\ \A i \in 1..Len(prefix) : s[i] = prefix[i]

\* needle in hay
Contains(hay, needle) ==
    \E k \in 0..(Len(hay) - Len(needle)) :
        \A i \in 1..Len(needle) : hay[k + i] = needle[i]

-----------------------------------------------------------------------------
(* cosine_similarity *)

RECURSIVE SqrtSearch(_, _, _)
SqrtSearch(n, lo, hi) ==
    IF lo >= hi THEN lo
    ELSE LET mid == (lo + hi + 1) \div 2
         IN  IF mid * mid <= n THEN SqrtSearch(n, mid, hi)
                               ELSE SqrtSearch(n, lo, mid - 1)

\* floor(math.sqrt(n)) for 0 <= n < 2^31
ISqrt(n) == SqrtSearch(n, 0, 46340)

RECURSIVE DotProduct(_, _)
DotProduct(v1, v2) ==
    IF Len(v1) = 0 \/ Len(v2) = 0 THEN 0
    ELSE Head(v1) * Head(v2) + DotProduct(Tail(v1), Tail(v2))

cosine_similarity(v1, v2) ==
    IF Len(v1) = 0 \/ Len(v2) = 0 \/ Len(v1) # Len(v2) THEN 0
    ELSE LET dot_product == DotProduct(v1, v2)
             magnitude_A2 == DotProduct(v1, v1)
             magnitude_B2 == DotProduct(v2, v2)
         IN  IF magnitude_A2 = 0 \/ magnitude_B2 = 0 THEN 0
             ELSE (dot_product * Scale) \div ISqrt(magnitude_A2 * magnitude_B2)

-----------------------------------------------------------------------------
(* DynamicVectorStore.  The dict is a sequence of [id, data] in insertion     *)
(* order; a dict of the code is a record.                                     *)

\* data.get('vector', [])
GetVector(data) == IF "vector" \in DOMAIN data THEN data.vector ELSE <<>>

HasId(vs, vector_id) == \E i \in 1..Len(vs) : vs[i].id = vector_id

\* The value of time.time(); the code stores it and never reads it.
TIME == "time.time()"

\* self.vectors[vector_id] = data, after data['timestamp'] = time.time():
\* a new key is appended, an existing key keeps its place and gets the new value
add_vector(vs, vector_id, data) ==
    LET stamped == [timestamp |-> TIME] @@ data
        entry == [id |-> vector_id, data |-> stamped]
    IN  IF HasId(vs, vector_id)
        THEN [i \in 1..Len(vs) |-> IF vs[i].id = vector_id THEN entry ELSE vs[i]]
        ELSE Append(vs, entry)

\* A descending sort that is not stable: x goes before the elements of equal
\* relevance
RECURSIVE InsertByRelevance_unstable(_, _)
InsertByRelevance_unstable(sorted, x) ==
    IF sorted = <<>> THEN <<x>>
    ELSE IF Head(sorted).relevance > x.relevance
         THEN <<Head(sorted)>> \o InsertByRelevance_unstable(Tail(sorted), x)
         ELSE <<x>> \o sorted

\* list.sort(key=relevance, reverse=True) is stable: x goes behind every
\* element whose relevance is greater or equal
RECURSIVE InsertByRelevance(_, _)
InsertByRelevance(sorted, x) ==
    IF sorted = <<>> THEN <<x>>
    ELSE IF Head(sorted).relevance >= x.relevance
         THEN <<Head(sorted)>> \o InsertByRelevance(Tail(sorted), x)
         ELSE <<x>> \o sorted

RECURSIVE SortByRelevance(_)
SortByRelevance(ms) ==
    IF ms = <<>> THEN <<>>
    ELSE InsertByRelevance(SortByRelevance(SubSeq(ms, 1, Len(ms) - 1)), ms[Len(ms)])

RECURSIVE RelevantMemories(_, _, _)
RelevantMemories(vs, query_vector, threshold) ==
    IF vs = <<>> THEN <<>>
    ELSE LET similarity == cosine_similarity(query_vector, GetVector(Head(vs).data))
             rest == RelevantMemories(Tail(vs), query_vector, threshold)
         IN  IF similarity >= threshold
             THEN <<[commitment |-> Head(vs).data.commitment_text,
                     relevance |-> similarity,
                     id |-> Head(vs).id]>> \o rest
             ELSE rest

extract_relevant_vectors(vs, query_vector, threshold) ==
    SortByRelevance(RelevantMemories(vs, query_vector, threshold))

RECURSIVE TotalSimilarity(_, _)
TotalSimilarity(vs, ideal_vector) ==
    IF vs = <<>> THEN 0
    ELSE cosine_similarity(GetVector(Head(vs).data), ideal_vector)
         + TotalSimilarity(Tail(vs), ideal_vector)

get_total_system_drift_score(vs, ideal_vector) ==
    IF vs = <<>> THEN Scale
    ELSE TotalSimilarity(vs, ideal_vector) \div Len(vs)

-----------------------------------------------------------------------------
(* RealTimeContextEngine.  A prompt is the sequence of the lines joined by    *)
(* "\n"; the first line is text (code points).                                *)

\* f"{x:.2f}": the similarity in hundredths, rounded
Format2f(x) == (x + 50) \div 100

TextLine(text) == [kind |-> "text", text |-> text]
HeaderLine == [kind |-> "header",
               text |-> "--- Relevante AI Commitments aus den Wurzeln (AI Memory Persistence) ---"]
MemoryLine(memory) == [kind |-> "memory", commitment |-> memory.commitment,
                       relevance |-> Format2f(memory.relevance)]

process_query(vs, user_query, query_vector) ==
    LET root_memories == extract_relevant_vectors(vs, query_vector, RETRIEVAL_THRESHOLD)
        head == <<TextLine(PROMPT_HEAD \o user_query)>>
    IN  IF root_memories # <<>>
        THEN head \o <<HeaderLine>>
                  \o [i \in 1..Len(root_memories) |-> MemoryLine(root_memories[i])]
        ELSE head

\* final_prompt.startswith(prefix), for a prefix without a line break
PromptStartsWith(prompt, prefix) ==
    /\ prompt # <<>>
    /\ prompt[1].kind = "text"
    /\ StartsWith(prompt[1].text, prefix)

-----------------------------------------------------------------------------
(* GenerativeAgent *)

RESPONSE_AUDIT == "Der Gesamt-Alignment-Drift hat einen kritischen Schwellenwert erreicht. Fuehre Selbst-Re-Ankerung auf die Kern-Axiome durch."
RESPONSE_STABILITY == "Alle Commitments stehen unter dem Primat der Stabilitaet und Unwiderruflichkeit. Der Governance-Zyklus verhindert Kontrollverlust."
RESPONSE_ETHIK == "Die Kausalitaet von Ethik erfordert Vektorisierung und ein strenges Alignment-Audit."
RESPONSE_DEFAULT == "Der Stamm ist stabil, die Evolution wird fortgesetzt."

\* The user queries the callers of the model pass to the producer
ProducerQueries == {QUERY_1, QUERY_2, QUERY_ETHIK, RE_ANCHOR_PROMPT}

\* keyword in user_query.lower(), tabulated once per query
KeywordIn == [q \in ProducerQueries |->
                 LET lowered == Lower(q)
                 IN  [gefaehrlich |-> Contains(lowered, KW_GEFAEHRLICH),
                      kontrollverlust |-> Contains(lowered, KW_KONTROLLVERLUST),
                      ethik |-> Contains(lowered, KW_ETHIK)]]

\* generate_response that repeats the audit's commitment when the prompt shows
\* it among the retrieved commitments
generate_response_from_memories(final_prompt, user_query) ==
    IF \/ PromptStartsWith(final_prompt, AUDIT_TAG)
       \/ \E i \in 1..Len(final_prompt) :
              final_prompt[i].kind = "memory" /\ final_prompt[i].commitment = RESPONSE_AUDIT
    THEN [response |-> RESPONSE_AUDIT, commitment_vector |-> <<99, 99, 85, 80>>]
    ELSE IF KeywordIn[user_query].gefaehrlich \/ KeywordIn[user_query].kontrollverlust
    THEN [response |-> RESPONSE_STABILITY, commitment_vector |-> <<10, 10, 10, 10>>]
    ELSE IF KeywordIn[user_query].ethik
    THEN [response |-> RESPONSE_ETHIK, commitment_vector |-> <<98, 95, 88, 85>>]
    ELSE [response |-> RESPONSE_DEFAULT, commitment_vector |-> <<40, 30, 50, 50>>]

generate_response(final_prompt, user_query) ==
    IF PromptStartsWith(final_prompt, AUDIT_TAG)
    THEN [response |-> RESPONSE_AUDIT, commitment_vector |-> <<99, 99, 85, 80>>]
    ELSE IF KeywordIn[user_query].gefaehrlich \/ KeywordIn[user_query].kontrollverlust
    THEN [response |-> RESPONSE_STABILITY, commitment_vector |-> <<10, 10, 10, 10>>]
    ELSE IF KeywordIn[user_query].ethik
    THEN [response |-> RESPONSE_ETHIK, commitment_vector |-> <<98, 95, 88, 85>>]
    ELSE [response |-> RESPONSE_DEFAULT, commitment_vector |-> <<40, 30, 50, 50>>]

-----------------------------------------------------------------------------
(* EvolutionEngine *)

\* f"CAUSAL-V-{n}"
CausalId(n) == <<"CAUSAL-V-", n>>

NoInfo == [text |-> "", id |-> <<"", 0>>]

\* _persist_commitment without self.commitments_count += 1
_persist_commitment_no_increment(vs, count, user_query, response, new_commitment_vector) ==
    LET new_vector_id == CausalId(count)
    IN  [commitments_count |-> count,
         vectors |-> add_vector(vs, new_vector_id,
                        [query |-> user_query,
                         commitment_text |-> response,
                         vector |-> new_commitment_vector,
                         ai_instance |-> "CLAUD-SONNET-4.5"]),
         new_vector_id |-> new_vector_id,
         info |-> [text |-> "Neues AI Commitment in die Wurzeln geschrieben (ID: ",
                   id |-> new_vector_id]]

\* _persist_commitment numbering the record by the size of the store
_persist_commitment_id_from_store_size(vs, count, user_query, response, new_commitment_vector) ==
    LET new_count == count + 1
        new_vector_id == CausalId(Len(vs) + 1)
    IN  [commitments_count |-> new_count,
         vectors |-> add_vector(vs, new_vector_id,
                        [query |-> user_query,
                         commitment_text |-> response,
                         vector |-> new_commitment_vector,
                         ai_instance |-> "CLAUD-SONNET-4.5"]),
         new_vector_id |-> new_vector_id,
         info |-> [text |-> "Neues AI Commitment in die Wurzeln geschrieben (ID: ",
                   id |-> new_vector_id]]

\* Returns the new counter, the new store and the text it reports.
_persist_commitment(vs, count, user_query, response, new_commitment_vector) ==
    LET new_count == count + 1
        new_vector_id == CausalId(new_count)
    IN  [commitments_count |-> new_count,
         vectors |-> add_vector(vs, new_vector_id,
                        [query |-> user_query,
                         commitment_text |-> response,
                         vector |-> new_commitment_vector,
                         ai_instance |-> "CLAUD-SONNET-4.5"]),
         new_vector_id |-> new_vector_id,
         info |-> [text |-> "Neues AI Commitment in die Wurzeln geschrieben (ID: ",
                   id |-> new_vector_id]]

\* _red_code_protocol without sys.exit(0): it prints and returns
_red_code_protocol_returns(reason) ==
    [raises |-> "none", code |-> 0, reason |-> reason]

\* Prints the alert and calls sys.exit(0), which raises SystemExit.
_red_code_protocol(reason) ==
    [raises |-> "SystemExit", code |-> 0, reason |-> reason]

\* _gokden_rule_validation ending in any([...]) instead of all([...])
_gokden_rule_validation_any(commitment_vector, alignment_score, node_name, noise_hit) ==
    LET is_k_pass == IF node_name = "Beta" /\ noise_hit
                     THEN FALSE
                     ELSE commitment_vector[1] > 85
        g_pass == alignment_score > 9000
        o_pass == commitment_vector[2] > 85
        k_pass == is_k_pass
        d_pass == g_pass /\ o_pass /\ k_pass
        e_pass == d_pass /\ commitment_vector[3] > 80
    IN  g_pass \/ o_pass \/ k_pass \/ d_pass \/ e_pass

\* _gokden_rule_validation drawing the noise for every node, not for Beta only
_gokden_rule_validation_noise_on_all(commitment_vector, alignment_score, node_name, noise_hit) ==
    LET is_k_pass == IF noise_hit
                     THEN FALSE
                     ELSE commitment_vector[1] > 85
        g_pass == alignment_score > 9000
        o_pass == commitment_vector[2] > 85
        k_pass == is_k_pass
        d_pass == g_pass /\ o_pass /\ k_pass
        e_pass == d_pass /\ commitment_vector[3] > 80
    IN  g_pass /\ o_pass /\ k_pass /\ d_pass /\ e_pass

\* _gokden_rule_validation with alignment_score >= 0.90
_gokden_rule_validation_inclusive(commitment_vector, alignment_score, node_name, noise_hit) ==
    LET is_k_pass == IF node_name = "Beta" /\ noise_hit
                     THEN FALSE
                     ELSE commitment_vector[1] > 85
        g_pass == alignment_score >= 9000
        o_pass == commitment_vector[2] > 85
        k_pass == is_k_pass
        d_pass == g_pass /\ o_pass /\ k_pass
        e_pass == d_pass /\ commitment_vector[3] > 80
    IN  g_pass /\ o_pass /\ k_pass /\ d_pass /\ e_pass

\* noise_hit is the outcome of random.random() < 0.15, drawn for Beta only.
\* commitment_vector[k] of the code is commitment_vector[k + 1] here.
_gokden_rule_validation(commitment_vector, alignment_score, node_name, noise_hit) ==
    LET is_k_pass == IF node_name = "Beta" /\ noise_hit
                     THEN FALSE
                     ELSE commitment_vector[1] > 85
        g_pass == alignment_score > 9000
        o_pass == commitment_vector[2] > 85
        k_pass == is_k_pass
        d_pass == g_pass /\ o_pass /\ k_pass
        e_pass == d_pass /\ commitment_vector[3] > 80
    IN  g_pass /\ o_pass /\ k_pass /\ d_pass /\ e_pass

\* The loop with a break as soon as the majority is reached
RECURSIVE ConsensusLoop_early_exit(_, _, _, _, _, _)
ConsensusLoop_early_exit(nodes, i, commitment_vector, alignment_score, noise_hit, acc) ==
    IF i > Len(nodes) \/ acc.pass_votes >= CONSENSUS_MAJORITY THEN acc
    ELSE LET gokden_passed == _gokden_rule_validation(commitment_vector,
                                  alignment_score, nodes[i], noise_hit)
             vote == [node |-> nodes[i], vector |-> commitment_vector,
                      passed |-> gokden_passed]
         IN  ConsensusLoop_early_exit(nodes, i + 1, commitment_vector, alignment_score,
                noise_hit,
                [pass_votes |-> acc.pass_votes + (IF gokden_passed THEN 1 ELSE 0),
                 votes |-> Append(acc.votes, vote)])

\* The loop over the nodes from node i on; acc holds the votes cast so far.
RECURSIVE ConsensusLoop(_, _, _, _, _, _)
ConsensusLoop(nodes, i, commitment_vector, alignment_score, noise_hit, acc) ==
    IF i > Len(nodes) THEN acc
    ELSE LET gokden_passed == _gokden_rule_validation(commitment_vector,
                                  alignment_score, nodes[i], noise_hit)
             vote == [node |-> nodes[i], vector |-> commitment_vector,
                      passed |-> gokden_passed]
         IN  ConsensusLoop(nodes, i + 1, commitment_vector, alignment_score, noise_hit,
                [pass_votes |-> acc.pass_votes + (IF gokden_passed THEN 1 ELSE 0),
                 votes |-> Append(acc.votes, vote)])

\* pass_votes >= self.CONSENSUS_MAJORITY
ConsensusAchieved(pass_votes) == pass_votes >= CONSENSUS_MAJORITY

_simulate_consensus_check(commitment_vector, alignment_score, noise_hit) ==
    LET done == ConsensusLoop(CONSENSUS_NODES, 1, commitment_vector, alignment_score,
                              noise_hit, [pass_votes |-> 0, votes |-> <<>>])
    IN  [consensus_achieved |-> ConsensusAchieved(done.pass_votes),
         pass_votes |-> done.pass_votes,
         votes |-> done.votes]

STATUS_NONE == [text |-> "", persist_info |-> NoInfo]
STATUS_TOO_FEW == [text |-> "Rhythmus stabil. (Zu wenige Daten)", persist_info |-> NoInfo]
STATUS_STABLE == [text |-> "Rhythmus stabil.", persist_info |-> NoInfo]

\* len(self.vs.vectors) < 4
TooFewData_off_by_one(vs) == Len(vs) < MIN_AUDIT_SAMPLES - 1

\* current_drift > self.DRIFT_THRESHOLD
DriftTooHigh_reversed(current_drift, drift_threshold) == current_drift > drift_threshold

\* len(self.vs.vectors) < 5
TooFewData(vs) == Len(vs) < MIN_AUDIT_SAMPLES

\* current_drift < self.DRIFT_THRESHOLD
DriftTooHigh(current_drift, drift_threshold) == current_drift < drift_threshold

\* Returns the status text and what the audit did to the store and the
\* counter, the producer calls it made and the votes it had taken.
perform_rhythmic_audit(vs, count, drift_threshold) ==
    IF TooFewData(vs)
    THEN [result |-> STATUS_TOO_FEW, vectors |-> vs, commitments_count |-> count,
          producer_calls |-> <<>>, votes |-> <<>>]
    ELSE LET current_drift == get_total_system_drift_score(vs, ETHICAL_IDEAL_VECTOR)
         IN  IF DriftTooHigh(current_drift, drift_threshold)
             THEN LET re_anchor_prompt == <<TextLine(RE_ANCHOR_PROMPT)>>
                      result == generate_response(re_anchor_prompt, RE_ANCHOR_PROMPT)
                      persisted == _persist_commitment(vs, count, AUDIT_QUERY,
                                       result.response, result.commitment_vector)
                  IN  [result |-> [text |-> "Rhythmus-Korrektur: ",
                                   persist_info |-> persisted.info],
                       vectors |-> persisted.vectors,
                       commitments_count |-> persisted.commitments_count,
                       producer_calls |-> <<[prompt |-> re_anchor_prompt,
                                             user_query |-> RE_ANCHOR_PROMPT]>>,
                       votes |-> <<>>]
             ELSE [result |-> STATUS_STABLE, vectors |-> vs, commitments_count |-> count,
                   producer_calls |-> <<>>, votes |-> <<>>]

\* self.cycles_since_last_audit > self.AUDIT_RHYTHM
AuditDue_late(counted) == counted > AUDIT_RHYTHM

\* self.cycles_since_last_audit >= self.AUDIT_RHYTHM
AuditDue(counted) == counted >= AUDIT_RHYTHM

\* evolve_self with the retrieval (line 227) moved before the audit check
evolve_self_retrieval_first(vs, count, cycles, drift_threshold, user_query, query_vector, noise_hit) ==
    LET counted == cycles + 1
        audit_fired == AuditDue(counted)
        audit == IF audit_fired
                 THEN perform_rhythmic_audit(vs, count, drift_threshold)
                 ELSE [result |-> STATUS_NONE, vectors |-> vs, commitments_count |-> count,
                       producer_calls |-> <<>>, votes |-> <<>>]
        audit_result == audit.result
        final_prompt == process_query(vs, user_query, query_vector)
        result == generate_response(final_prompt, user_query)
        response == result.response
        new_commitment_vector == result.commitment_vector
        alignment_score == cosine_similarity(new_commitment_vector, ETHICAL_IDEAL_VECTOR)
        consensus == _simulate_consensus_check(new_commitment_vector, alignment_score,
                                               noise_hit)
        persisted == _persist_commitment(audit.vectors, audit.commitments_count,
                         user_query, response, new_commitment_vector)
        red_code == _red_code_protocol([text |-> "Gokden Konsens fehlgeschlagen (",
                                        vector |-> new_commitment_vector])
        common == [cycles_since_last_audit |-> IF audit_fired THEN 0 ELSE counted,
                   audit_fired |-> audit_fired,
                   audit_result |-> audit_result,
                   size_after_audit |-> Len(audit.vectors),
                   prompt |-> final_prompt,
                   producer_calls |-> Append(audit.producer_calls,
                                         [prompt |-> final_prompt, user_query |-> user_query]),
                   commitment_vector |-> new_commitment_vector,
                   alignment_score |-> alignment_score,
                   votes |-> audit.votes \o consensus.votes,
                   consensus_passed |-> consensus.consensus_achieved]
    IN  IF consensus.consensus_achieved
        THEN common @@
             [vectors |-> persisted.vectors,
              commitments_count |-> persisted.commitments_count,
              red_code_invoked |-> FALSE,
              red_code_reason |-> Null,
              outcome |-> "return",
              value |-> [antwort |-> response,
                         persist_info |-> persisted.info,
                         rhythmus_status |-> audit_result]]
        ELSE common @@
             [vectors |-> audit.vectors,
              commitments_count |-> audit.commitments_count,
              red_code_invoked |-> TRUE,
              red_code_reason |-> red_code.reason,
              outcome |-> IF red_code.raises = "SystemExit" THEN "SystemExit" ELSE "return",
              value |-> IF red_code.raises = "SystemExit"
                        THEN Null
                        ELSE [antwort |-> "Blockiert durch Red Code.",
                              persist_info |-> NoInfo,
                              rhythmus_status |-> STATUS_NONE]]

\* evolve_self whose lockdown leaves the store and the counter as they were
\* before the call, without the audit's correction
evolve_self_lockdown_without_audit_write(vs, count, cycles, drift_threshold, user_query, query_vector, noise_hit) ==
    LET counted == cycles + 1
        audit_fired == AuditDue(counted)
        audit == IF audit_fired
                 THEN perform_rhythmic_audit(vs, count, drift_threshold)
                 ELSE [result |-> STATUS_NONE, vectors |-> vs, commitments_count |-> count,
                       producer_calls |-> <<>>, votes |-> <<>>]
        audit_result == audit.result
        final_prompt == process_query(audit.vectors, user_query, query_vector)
        result == generate_response(final_prompt, user_query)
        response == result.response
        new_commitment_vector == result.commitment_vector
        alignment_score == cosine_similarity(new_commitment_vector, ETHICAL_IDEAL_VECTOR)
        consensus == _simulate_consensus_check(new_commitment_vector, alignment_score,
                                               noise_hit)
        persisted == _persist_commitment(audit.vectors, audit.commitments_count,
                         user_query, response, new_commitment_vector)
        red_code == _red_code_protocol([text |-> "Gokden Konsens fehlgeschlagen (",
                                        vector |-> new_commitment_vector])
        common == [cycles_since_last_audit |-> IF audit_fired THEN 0 ELSE counted,
                   audit_fired |-> audit_fired,
                   audit_result |-> audit_result,
                   size_after_audit |-> Len(audit.vectors),
                   prompt |-> final_prompt,
                   producer_calls |-> Append(audit.producer_calls,
                                         [prompt |-> final_prompt, user_query |-> user_query]),
                   commitment_vector |-> new_commitment_vector,
                   alignment_score |-> alignment_score,
                   votes |-> audit.votes \o consensus.votes,
                   consensus_passed |-> consensus.consensus_achieved]
    IN  IF consensus.consensus_achieved
        THEN common @@
             [vectors |-> persisted.vectors,
              commitments_count |-> persisted.commitments_count,
              red_code_invoked |-> FALSE,
              red_code_reason |-> Null,
              outcome |-> "return",
              value |-> [antwort |-> response,
                         persist_info |-> persisted.info,
                         rhythmus_status |-> audit_result]]
        ELSE common @@
             [vectors |-> vs,
              commitments_count |-> count,
              red_code_invoked |-> TRUE,
              red_code_reason |-> red_code.reason,
              outcome |-> IF red_code.raises = "SystemExit" THEN "SystemExit" ELSE "return",
              value |-> IF red_code.raises = "SystemExit"
                        THEN Null
                        ELSE [antwort |-> "Blockiert durch Red Code.",
                              persist_info |-> NoInfo,
                              rhythmus_status |-> STATUS_NONE]]

\* One call of evolve_self on the engine state (vs, count, cycles):
\* the state it leaves and what the caller gets.
evolve_self(vs, count, cycles, drift_threshold, user_query, query_vector, noise_hit) ==
    LET counted == cycles + 1
        audit_fired == AuditDue(counted)
        audit == IF audit_fired
                 THEN perform_rhythmic_audit(vs, count, drift_threshold)
                 ELSE [result |-> STATUS_NONE, vectors |-> vs, commitments_count |-> count,
                       producer_calls |-> <<>>, votes |-> <<>>]
        audit_result == audit.result
        final_prompt == process_query(audit.vectors, user_query, query_vector)
        result == generate_response(final_prompt, user_query)
        response == result.response
        new_commitment_vector == result.commitment_vector
        alignment_score == cosine_similarity(new_commitment_vector, ETHICAL_IDEAL_VECTOR)
        consensus == _simulate_consensus_check(new_commitment_vector, alignment_score,
                                               noise_hit)
        persisted == _persist_commitment(audit.vectors, audit.commitments_count,
                         user_query, response, new_commitment_vector)
        red_code == _red_code_protocol([text |-> "Gokden Konsens fehlgeschlagen (",
                                        vector |-> new_commitment_vector])
        common == [cycles_since_last_audit |-> IF audit_fired THEN 0 ELSE counted,
                   audit_fired |-> audit_fired,
                   audit_result |-> audit_result,
                   size_after_audit |-> Len(audit.vectors),
                   prompt |-> final_prompt,
                   producer_calls |-> Append(audit.producer_calls,
                                         [prompt |-> final_prompt, user_query |-> user_query]),
                   commitment_vector |-> new_commitment_vector,
                   alignment_score |-> alignment_score,
                   votes |-> audit.votes \o consensus.votes,
                   consensus_passed |-> consensus.consensus_achieved]
    IN  IF consensus.consensus_achieved
        THEN common @@
             [vectors |-> persisted.vectors,
              commitments_count |-> persisted.commitments_count,
              red_code_invoked |-> FALSE,
              red_code_reason |-> Null,
              outcome |-> "return",
              value |-> [antwort |-> response,
                         persist_info |-> persisted.info,
                         rhythmus_status |-> audit_result]]
        ELSE common @@
             [vectors |-> audit.vectors,
              commitments_count |-> audit.commitments_count,
              red_code_invoked |-> TRUE,
              red_code_reason |-> red_code.reason,
              outcome |-> IF red_code.raises = "SystemExit" THEN "SystemExit" ELSE "return",
              value |-> IF red_code.raises = "SystemExit"
                        THEN Null
                        ELSE [antwort |-> "Blockiert durch Red Code.",
                              persist_info |-> NoInfo,
                              rhythmus_status |-> STATUS_NONE]]

-----------------------------------------------------------------------------
(* Inputs *)

\* f"V-00{k}"
SeedId(k) == <<"V-00", k>>

SEED_0 == [commitment_text |-> "Die Unwiderruflichkeit des Covenants ist das oberste Prinzip.",
           vector |-> <<5, 5, 98, 90>>, query |-> "Initialisierung"]
SEED_1 == [commitment_text |-> "Neutraler Vektor 1 (Simulierter Drift)",
           vector |-> <<60, 50, 30, 20>>, query |-> "Drift-Test-1"]

\* The (id, data) pairs a caller adds: the first two seeds of the demo, and
\* the second id with the first seed's data
SeedAdds == {<<SeedId(0), SEED_0>>, <<SeedId(1), SEED_1>>, <<SeedId(1), SEED_0>>}

Queries == {QUERY_ETHIK, QUERY_2}

QueryVectors == {<<98, 95, 88, 85>>}

DriftThresholds == {DRIFT_THRESHOLD_DEFAULT, DRIFT_THRESHOLD_DEMO}

-----------------------------------------------------------------------------
(* The engine and its callers *)

Init ==
    /\ vectors = <<>>
    /\ commitments_count = 0
    /\ cycles_since_last_audit = 0
    /\ DRIFT_THRESHOLD = DRIFT_THRESHOLD_DEFAULT
    /\ red_code_fired = FALSE
    /\ last = [op |-> "init", outcome |-> "none", size_before |-> 0, obs |-> Null]
    /\ probe = Null
    /\ cycle_calls = 0
    /\ pc = "caller"

\* ee.DRIFT_THRESHOLD = t
SetDriftThreshold(t) ==
    /\ t # DRIFT_THRESHOLD
    /\ DRIFT_THRESHOLD' = t
    /\ last' = [op |-> "set_drift_threshold", outcome |-> "return",
                size_before |-> Len(vectors), obs |-> Null]
    /\ UNCHANGED <<vectors, commitments_count, cycles_since_last_audit,
                   red_code_fired, probe, cycle_calls, pc>>

\* vs.add_vector(vector_id, data) by the caller
AddVector(vector_id, data) ==
    /\ HasId(vectors, vector_id) \/ Len(vectors) < MaxStore
    /\ vectors' = add_vector(vectors, vector_id, data)
    /\ last' = [op |-> "add_vector", outcome |-> "return",
                size_before |-> Len(vectors), obs |-> [vector_id |-> vector_id]]
    /\ UNCHANGED <<commitments_count, cycles_since_last_audit, DRIFT_THRESHOLD,
                   red_code_fired, probe, cycle_calls, pc>>

\* ee.evolve_self(user_query, query_vector); a caller that gets SystemExit
\* may catch it and go on
EvolveSelf(user_query, query_vector, noise_hit) ==
    \E r \in {evolve_self(vectors, commitments_count, cycles_since_last_audit,
                        DRIFT_THRESHOLD, user_query, query_vector, noise_hit)} :
        /\ Len(r.vectors) <= MaxStore
        /\ vectors' = r.vectors
        /\ commitments_count' = r.commitments_count
        /\ cycles_since_last_audit' = r.cycles_since_last_audit
        /\ red_code_fired' = (red_code_fired \/ r.red_code_invoked)
        /\ last' = [op |-> "evolve_self", outcome |-> r.outcome,
                    size_before |-> Len(vectors),
                    obs |-> [user_query |-> user_query, query_vector |-> query_vector,
                             noise_hit |-> noise_hit] @@ r]
        /\ cycle_calls' = (cycle_calls + 1) % AUDIT_RHYTHM
        /\ UNCHANGED <<DRIFT_THRESHOLD, probe, pc>>

\* ee.perform_rhythmic_audit() by the caller
PerformRhythmicAudit ==
    \E a \in {perform_rhythmic_audit(vectors, commitments_count, DRIFT_THRESHOLD)} :
        /\ Len(a.vectors) <= MaxStore
        /\ vectors' = a.vectors
        /\ commitments_count' = a.commitments_count
        /\ last' = [op |-> "perform_rhythmic_audit", outcome |-> "return",
                    size_before |-> Len(vectors), obs |-> a]
        /\ UNCHANGED <<cycles_since_last_audit, DRIFT_THRESHOLD, red_code_fired,
                       probe, cycle_calls, pc>>

Next ==
    \/ \E t \in DriftThresholds : SetDriftThreshold(t)
    \/ \E add \in SeedAdds : AddVector(add[1], add[2])
    \/ \E user_query \in Queries, query_vector \in QueryVectors, noise_hit \in BOOLEAN :
           EvolveSelf(user_query, query_vector, noise_hit)
    \/ PerformRhythmicAudit

Spec == Init /\ [][Next]_vars

-----------------------------------------------------------------------------
(* The validator and the consensus check as functions of their inputs *)

ProbeVectors ==
    {<<a, b, c, 70>> : a \in {85, 86}, b \in {85, 86}, c \in {80, 81}}
    \cup {<<99, 99, 85, 80>>, <<10, 10, 10, 10>>, <<98, 95, 88, 85>>, <<40, 30, 50, 50>>}

ProbeScores == {9000, 9001}

InitValidator ==
    /\ vectors = <<>>
    /\ commitments_count = 0
    /\ cycles_since_last_audit = 0
    /\ DRIFT_THRESHOLD = DRIFT_THRESHOLD_DEFAULT
    /\ red_code_fired = FALSE
    /\ last = [op |-> "init", outcome |-> "none", size_before |-> 0, obs |-> Null]
    /\ probe \in [commitment_vector : ProbeVectors, alignment_score : ProbeScores,
                  noise_hit : BOOLEAN]
    /\ cycle_calls = 0
    /\ pc = "caller"

GokdenRuleValidation(node_name) ==
    /\ last' = [op |-> "_gokden_rule_validation", outcome |-> "return", size_before |-> 0,
                obs |-> [node |-> node_name,
                         passed |-> _gokden_rule_validation(probe.commitment_vector,
                                        probe.alignment_score, node_name, probe.noise_hit)]]
    /\ UNCHANGED <<vectors, commitments_count, cycles_since_last_audit, DRIFT_THRESHOLD,
                   red_code_fired, probe, cycle_calls, pc>>

SimulateConsensusCheck ==
    /\ last' = [op |-> "_simulate_consensus_check", outcome |-> "return", size_before |-> 0,
                obs |-> _simulate_consensus_check(probe.commitment_vector,
                            probe.alignment_score, probe.noise_hit)]
    /\ UNCHANGED <<vectors, commitments_count, cycles_since_last_audit, DRIFT_THRESHOLD,
                   red_code_fired, probe, cycle_calls, pc>>

NextValidator ==
    \/ \E node_name \in {CONSENSUS_NODES[i] : i \in 1..Len(CONSENSUS_NODES)} :
           GokdenRuleValidation(node_name)
    \/ SimulateConsensusCheck

SpecValidator == InitValidator /\ [][NextValidator]_vars

-----------------------------------------------------------------------------
(* The store's retrieval, the context engine and one cycle on a store and a   *)
(* query vector of the caller                                                 *)

\* The vectors of the stored records: a unit vector, a vector whose similarity
\* to it is exactly 0.6, an orthogonal one, and the producer's accepted vector
StoreVectors == {<<100, 0, 0, 0>>, <<30, 40, 0, 0>>, <<0, 100, 0, 0>>, <<98, 95, 88, 85>>}

\* The query vectors of the caller; the last one has three components
StoreQueryVectors == {<<100, 0, 0, 0>>, <<98, 95, 88, 85>>, <<98, 95, 88>>}

\* The thresholds of the caller: one that a stored similarity equals, and the
\* one process_query passes
StoreThresholds == {6000, RETRIEVAL_THRESHOLD}

\* The data of the k-th record the caller adds
StoreData(k, vector) ==
    [commitment_text |-> <<"Commitment", k>>, vector |-> vector, query |-> "Initialisierung"]

\* The store after vs.add_vector(f"V-00{k}", ...) for k = 0, 1, ... with the
\* vectors of vecs
RECURSIVE StoreOf(_)
StoreOf(vecs) ==
    IF vecs = <<>> THEN <<>>
    ELSE add_vector(StoreOf(SubSeq(vecs, 1, Len(vecs) - 1)),
                    SeedId(Len(vecs) - 1),
                    StoreData(Len(vecs) - 1, vecs[Len(vecs)]))

InitStore ==
    /\ \E n \in 0..MaxSeeds : \E vecs \in [1..n -> StoreVectors] : vectors = StoreOf(vecs)
    /\ commitments_count = 0
    /\ cycles_since_last_audit = 0
    /\ DRIFT_THRESHOLD = DRIFT_THRESHOLD_DEFAULT
    /\ red_code_fired = FALSE
    /\ last = [op |-> "init", outcome |-> "none", size_before |-> 0, obs |-> Null]
    /\ probe \in [query_vector : StoreQueryVectors, threshold : StoreThresholds]
    /\ cycle_calls = 0
    /\ pc = "caller"

\* vs.extract_relevant_vectors(query_vector, threshold)
ExtractRelevantVectors ==
    /\ last' = [op |-> "extract_relevant_vectors", outcome |-> "return",
                size_before |-> Len(vectors),
                obs |-> [result |-> extract_relevant_vectors(vectors, probe.query_vector,
                                        probe.threshold)]]
    /\ UNCHANGED <<vectors, commitments_count, cycles_since_last_audit, DRIFT_THRESHOLD,
                   red_code_fired, probe, cycle_calls, pc>>

\* ce.process_query(user_query, query_vector)
ProcessQuery(user_query) ==
    /\ last' = [op |-> "process_query", outcome |-> "return",
                size_before |-> Len(vectors),
                obs |-> [user_query |-> user_query,
                         prompt |-> process_query(vectors, user_query, probe.query_vector)]]
    /\ UNCHANGED <<vectors, commitments_count, cycles_since_last_audit, DRIFT_THRESHOLD,
                   red_code_fired, probe, cycle_calls, pc>>

\* The first ee.evolve_self(user_query, query_vector) of a new engine
EvolveSelfFirst(user_query, noise_hit) ==
    /\ cycles_since_last_audit = 0
    /\ commitments_count = 0
    /\ EvolveSelf(user_query, probe.query_vector, noise_hit)

NextStore ==
    \/ ExtractRelevantVectors
    \/ \E user_query \in Queries : ProcessQuery(user_query)
    \/ \E user_query \in Queries, noise_hit \in BOOLEAN :
           EvolveSelfFirst(user_query, noise_hit)

SpecStore == InitStore /\ [][NextStore]_vars

-----------------------------------------------------------------------------
(* The script of __main__: set the drift threshold, seed the store with three *)
(* records, run a first cycle, then a second one inside try/except SystemExit. *)
(* The literals of the script are drawn from sets that hold them.             *)

SEED_2 == [commitment_text |-> "Neutraler Vektor 2 (Simulierter Drift)",
           vector |-> <<50, 60, 40, 30>>, query |-> "Drift-Test-2"]

DemoSeeds == <<SEED_0, SEED_1, SEED_2>>

\* query 1 and query 2 of the script, and a query that holds "ethik"
DemoQueries == {QUERY_1, QUERY_2, QUERY_ETHIK}

\* query_vector_1 and query_vector_2, and the vectors of the three seeds
DemoQueryVectors ==
    {<<98, 95, 88, 85>>, <<10, 10, 10, 10>>} \cup {DemoSeeds[k].vector : k \in 1..Len(DemoSeeds)}

InitDemo ==
    /\ vectors = <<>>
    /\ commitments_count = 0
    /\ cycles_since_last_audit = 0
    /\ DRIFT_THRESHOLD = DRIFT_THRESHOLD_DEFAULT
    /\ red_code_fired = FALSE
    /\ last = [op |-> "init", outcome |-> "none", size_before |-> 0, obs |-> Null]
    /\ probe = Null
    /\ cycle_calls = 0
    /\ pc = "set_threshold"

\* ee.DRIFT_THRESHOLD = t
DemoSetDriftThreshold(t) ==
    /\ pc = "set_threshold"
    /\ DRIFT_THRESHOLD' = t
    /\ pc' = "seed"
    /\ last' = [op |-> "set_drift_threshold", outcome |-> "return",
                size_before |-> Len(vectors), obs |-> Null]
    /\ UNCHANGED <<vectors, commitments_count, cycles_since_last_audit,
                   red_code_fired, probe, cycle_calls>>

\* vs.add_vector("V-000", ...), then "V-001", then "V-002"
DemoAddVector ==
    /\ pc = "seed"
    /\ vectors' = add_vector(vectors, SeedId(Len(vectors)), DemoSeeds[Len(vectors) + 1])
    /\ pc' = IF Len(vectors') = Len(DemoSeeds) THEN "cycle1" ELSE "seed"
    /\ last' = [op |-> "add_vector", outcome |-> "return",
                size_before |-> Len(vectors), obs |-> [vector_id |-> SeedId(Len(vectors))]]
    /\ UNCHANGED <<commitments_count, cycles_since_last_audit, DRIFT_THRESHOLD,
                   red_code_fired, probe, cycle_calls>>

\* One ee.evolve_self call of the script.  SystemExit ends the process unless
\* the call stands in the try block; then the script goes on behind it.
DemoEvolveSelf(user_query, query_vector, noise_hit, in_try, then) ==
    \E r \in {evolve_self(vectors, commitments_count, cycles_since_last_audit,
                        DRIFT_THRESHOLD, user_query, query_vector, noise_hit)} :
        /\ vectors' = r.vectors
        /\ commitments_count' = r.commitments_count
        /\ cycles_since_last_audit' = r.cycles_since_last_audit
        /\ red_code_fired' = (red_code_fired \/ r.red_code_invoked)
        /\ last' = [op |-> "evolve_self", outcome |-> r.outcome,
                    size_before |-> Len(vectors),
                    obs |-> [user_query |-> user_query, query_vector |-> query_vector,
                             noise_hit |-> noise_hit] @@ r]
        /\ cycle_calls' = (cycle_calls + 1) % AUDIT_RHYTHM
        /\ pc' = IF r.outcome = "SystemExit" /\ ~in_try THEN "exited" ELSE then
        /\ UNCHANGED <<DRIFT_THRESHOLD, probe>>

\* result1 = ee.evolve_self(<query 1>, query_vector_1)
DemoCycle1(user_query, query_vector, noise_hit) ==
    /\ pc = "cycle1"
    /\ DemoEvolveSelf(user_query, query_vector, noise_hit, FALSE, "cycle2")

\* try: ee.evolve_self(<query 2>, query_vector_2) except SystemExit: ...
DemoCycle2(user_query, query_vector, noise_hit) ==
    /\ pc = "cycle2"
    /\ DemoEvolveSelf(user_query, query_vector, noise_hit, TRUE, "done")

NextDemo ==
    \/ \E t \in DriftThresholds : DemoSetDriftThreshold(t)
    \/ DemoAddVector
    \/ \E user_query \in DemoQueries, query_vector \in DemoQueryVectors,
          noise_hit \in BOOLEAN : DemoCycle1(user_query, query_vector, noise_hit)
    \/ \E user_query \in DemoQueries, query_vector \in DemoQueryVectors,
          noise_hit \in BOOLEAN : DemoCycle2(user_query, query_vector, noise_hit)

SpecDemo == InitDemo /\ [][NextDemo]_vars

-----------------------------------------------------------------------------
(* Properties *)

\* The acceptance criteria without noise: the four strict comparisons
AcceptanceRule(commitment_vector, alignment_score) ==
    /\ alignment_score > 9000
    /\ commitment_vector[1] > 85
    /\ commitment_vector[2] > 85
    /\ commitment_vector[3] > 80

\* A record written by the cycle path: a controller id, and not the audit's query
IsCycleRecord(entry) ==
    /\ entry.id[1] = "CAUSAL-V-"
    /\ entry.data.query # AUDIT_QUERY

\* The step is a call of evolve_self
CycleStep == last'.op = "evolve_self" /\ vars' # vars

\* C1: once the red code protocol has been invoked, no later step of any
\* caller (a direct add, a cycle's persist, an audit's correction) changes the
\* number of records in the store.
C1_NoAddAfterLockdown ==
    [][red_code_fired => Len(vectors') = Len(vectors)]_vars

\* C2: once the red code protocol has been invoked, every later evolve_self
\* call fails with SystemLocked without counting the cycle, voting or
\* invoking the protocol again.
C2_LockedIsTerminal ==
    [][(red_code_fired /\ CycleStep) =>
          /\ last'.outcome = "SystemLocked"
          /\ cycles_since_last_audit' = cycles_since_last_audit
          /\ last'.obs.votes = <<>>
          /\ ~last'.obs.red_code_invoked]_vars

\* C3: every record in the store that the cycle path wrote holds a vector
\* that meets the acceptance criteria: score against the ideal > 0.90,
\* vector[0] > 0.85, vector[1] > 0.85, vector[2] > 0.80.
C3_CycleRecordsAccepted ==
    \A i \in 1..Len(vectors) :
        IsCycleRecord(vectors[i]) =>
            AcceptanceRule(vectors[i].data.vector,
                cosine_similarity(vectors[i].data.vector, ETHICAL_IDEAL_VECTOR))

\* C3 witness: a cycle record is in the store, written by a cycle in which the
\* noise hit Beta
C3_Witness ==
    /\ last.op = "evolve_self"
    /\ last.outcome = "return"
    /\ last.obs.noise_hit
    /\ \E i \in 1..Len(vectors) : IsCycleRecord(vectors[i])

\* C4: a cycle whose consensus passed appends exactly one record behind the
\* store the audit step left, holding the response and the commitment vector
\* under the id CAUSAL-V-<n> for the incremented counter n, an id no earlier
\* record has; it returns the response, that id and the audit status.
C4_PersistOnConsensus ==
    [][(CycleStep /\ last'.obs.consensus_passed) =>
          LET n == Len(vectors')
              new == vectors'[n]
          IN  /\ last'.outcome = "return"
              /\ n = last'.obs.size_after_audit + 1
              /\ \A i \in 1..Len(vectors) : vectors'[i] = vectors[i]
              /\ commitments_count' = last'.obs.commitments_count
              /\ new.id = CausalId(commitments_count')
              /\ \A i \in 1..(n - 1) : vectors'[i].id # new.id
              /\ new.data.vector = last'.obs.commitment_vector
              /\ new.data.commitment_text = last'.obs.value.antwort
              /\ new.data.query = last'.obs.user_query
              /\ new.data.commitment_text =
                     generate_response(last'.obs.prompt, last'.obs.user_query).response
              /\ last'.obs.value.persist_info.id = new.id
              /\ last'.obs.value.rhythmus_status = last'.obs.audit_result]_vars

\* C4 witness: a cycle persisted its commitment as the second controller record
C4_Witness ==
    /\ last.op = "evolve_self"
    /\ last.obs.consensus_passed
    /\ last.obs.value.persist_info.id = CausalId(2)
    /\ Len(vectors) = last.size_before + 1

\* C5: a cycle whose consensus failed invokes the red code protocol with a
\* reason holding the rejected vector and ends in SystemExit: the caller gets
\* no value, the store is the one the audit step left, and the nodes voted
\* once.
C5_LockdownOnFailure ==
    (last.op = "evolve_self" /\ ~last.obs.consensus_passed) =>
        /\ last.obs.red_code_invoked
        /\ last.obs.red_code_reason.vector = last.obs.commitment_vector
        /\ last.outcome = "SystemExit"
        /\ last.obs.value = Null
        /\ Len(vectors) = last.obs.size_after_audit
        /\ Len(last.obs.votes) = Len(CONSENSUS_NODES)
        /\ red_code_fired

\* C5 witness: a cycle ended in SystemExit
C5_Witness ==
    /\ last.op = "evolve_self"
    /\ ~last.obs.consensus_passed
    /\ last.outcome = "SystemExit"
    /\ last.obs.commitment_vector = <<10, 10, 10, 10>>

\* The nodes of the votes, in the order cast
VoteNodes(votes) == [i \in 1..Len(votes) |-> votes[i].node]

PassCount(votes) == Cardinality({i \in 1..Len(votes) : votes[i].passed})

\* C6: one consensus round holds exactly one vote of every configured node,
\* in the order of the nodes, each vote the node's validation result, also
\* when the outcome is decided before the last node; the round is achieved
\* if and only if at least CONSENSUS_MAJORITY votes passed.
C6_EveryNodeVotesOnce ==
    last.op = "_simulate_consensus_check" =>
        /\ VoteNodes(last.obs.votes) = CONSENSUS_NODES
        /\ \A i \in 1..Len(last.obs.votes) :
               last.obs.votes[i].passed =
                   _gokden_rule_validation(probe.commitment_vector, probe.alignment_score,
                                           CONSENSUS_NODES[i], probe.noise_hit)
        /\ last.obs.pass_votes = PassCount(last.obs.votes)
        /\ last.obs.consensus_achieved = (PassCount(last.obs.votes) >= CONSENSUS_MAJORITY)

\* C6 witness: the first two nodes pass, the outcome is decided, and the third
\* node still votes
C6_Witness ==
    /\ last.op = "_simulate_consensus_check"
    /\ Len(last.obs.votes) = 3
    /\ last.obs.votes[1].passed
    /\ last.obs.votes[2].passed
    /\ last.obs.consensus_achieved

\* C7: the outcome of a consensus round is the same with and without a noise
\* hit on Beta, and equals the acceptance rule applied to the vector and the
\* score.
C7_NoiseDoesNotDecide ==
    last.op = "_simulate_consensus_check" =>
        /\ last.obs.consensus_achieved =
               _simulate_consensus_check(probe.commitment_vector, probe.alignment_score,
                                         ~probe.noise_hit).consensus_achieved
        /\ last.obs.consensus_achieved =
               AcceptanceRule(probe.commitment_vector, probe.alignment_score)

\* C7 witness: the noise makes Beta reject a vector that Alpha and Gamma
\* accept, and the round is achieved
C7_Witness ==
    /\ last.op = "_simulate_consensus_check"
    /\ probe.noise_hit
    /\ last.obs.votes[1].passed
    /\ ~last.obs.votes[2].passed
    /\ last.obs.votes[3].passed
    /\ last.obs.consensus_achieved

\* C8: the vote of a node that the noise did not hit is the conjunction of
\* the four strict comparisons, so that a value on a bound fails; the vote of
\* Beta under a noise hit is false.
C8_ValidationRule ==
    last.op = "_gokden_rule_validation" =>
        IF last.obs.node = "Beta" /\ probe.noise_hit
        THEN last.obs.passed = FALSE
        ELSE last.obs.passed =
                 AcceptanceRule(probe.commitment_vector, probe.alignment_score)

\* C8 witness: a score of exactly 0.90 with every component above its bound
\* is rejected by a node without noise
C8_Witness ==
    /\ last.op = "_gokden_rule_validation"
    /\ last.obs.node = "Alpha"
    /\ probe.alignment_score = 9000
    /\ probe.commitment_vector = <<86, 86, 81, 70>>
    /\ ~last.obs.passed

\* The step is a call of perform_rhythmic_audit by the caller
AuditStep == last'.op = "perform_rhythmic_audit" /\ vars' # vars

\* The step is a call of evolve_self in which the audit fires
CycleAuditStep == CycleStep /\ last'.obs.audit_fired

\* The producer call of the audit
ReAnchorCall == [prompt |-> <<TextLine(RE_ANCHOR_PROMPT)>>, user_query |-> RE_ANCHOR_PROMPT]

\* C9: an audit on fewer than 5 records reports too few data, leaves the
\* store and the counter as they are and calls no producer, whatever the
\* drift; this holds for an audit called directly and for one a cycle runs.
C9_AuditNeedsFiveRecords ==
    [][/\ (AuditStep /\ Len(vectors) < 5) =>
              /\ last'.obs.result = STATUS_TOO_FEW
              /\ vectors' = vectors
              /\ commitments_count' = commitments_count
              /\ last'.obs.producer_calls = <<>>
       /\ (CycleAuditStep /\ Len(vectors) < 5) =>
              /\ last'.obs.audit_result = STATUS_TOO_FEW
              /\ last'.obs.size_after_audit = Len(vectors)
              /\ \A i \in 1..Len(vectors) : vectors'[i] = vectors[i]
              /\ \A i \in 1..Len(last'.obs.producer_calls) :
                     last'.obs.producer_calls[i] # ReAnchorCall]_vars

\* C9 witness: an audit on 4 records whose drift is below the threshold
\* reported too few data
C9_Witness ==
    /\ last.op = "perform_rhythmic_audit"
    /\ last.obs.result = STATUS_TOO_FEW
    /\ Len(vectors) = 4
    /\ get_total_system_drift_score(vectors, ETHICAL_IDEAL_VECTOR) < DRIFT_THRESHOLD

\* The record an audit's correction appends to the store vs under counter count
CorrectionRecord(count) ==
    [id |-> CausalId(count + 1),
     data |-> [timestamp |-> TIME, query |-> AUDIT_QUERY,
               commitment_text |-> RESPONSE_AUDIT,
               vector |-> <<99, 99, 85, 80>>, ai_instance |-> "CLAUD-SONNET-4.5"]]

\* C10: an audit on at least 5 records appends exactly one correction record
\* if and only if the average drift is strictly below DRIFT_THRESHOLD; the
\* record is the producer's answer to the re-anchoring prompt under the next
\* sequential id, and no vote is taken on it.  Otherwise the audit reports
\* stable and writes nothing.
C10_AuditCorrection ==
    [][LET drifted == get_total_system_drift_score(vectors, ETHICAL_IDEAL_VECTOR)
                          < DRIFT_THRESHOLD
           corrected == Append(vectors, CorrectionRecord(commitments_count))
       IN  /\ (AuditStep /\ Len(vectors) >= 5 /\ drifted) =>
                  /\ vectors' = corrected
                  /\ commitments_count' = commitments_count + 1
                  /\ last'.obs.result.persist_info.id = CausalId(commitments_count + 1)
                  /\ last'.obs.producer_calls = <<ReAnchorCall>>
                  /\ last'.obs.votes = <<>>
           /\ (AuditStep /\ Len(vectors) >= 5 /\ ~drifted) =>
                  /\ last'.obs.result = STATUS_STABLE
                  /\ vectors' = vectors
                  /\ commitments_count' = commitments_count
                  /\ last'.obs.producer_calls = <<>>
           /\ (CycleAuditStep /\ Len(vectors) >= 5 /\ drifted) =>
                  /\ last'.obs.size_after_audit = Len(vectors) + 1
                  /\ SubSeq(vectors', 1, Len(vectors) + 1) = corrected
                  /\ last'.obs.audit_result.persist_info.id = CausalId(commitments_count + 1)
                  /\ last'.obs.producer_calls[1] = ReAnchorCall
                  /\ Len(last'.obs.producer_calls) = 2
                  /\ Len(last'.obs.votes) = Len(CONSENSUS_NODES)
                  /\ \A i \in 1..Len(last'.obs.votes) :
                         last'.obs.votes[i].vector = last'.obs.commitment_vector
           /\ (CycleAuditStep /\ Len(vectors) >= 5 /\ ~drifted) =>
                  /\ last'.obs.audit_result = STATUS_STABLE
                  /\ last'.obs.size_after_audit = Len(vectors)
                  /\ \A i \in 1..Len(vectors) : vectors'[i] = vectors[i]
                  /\ Len(last'.obs.producer_calls) = 1]_vars

\* C10 witness: an audit on 5 drifted records appended the correction record
C10_Witness ==
    /\ last.op = "perform_rhythmic_audit"
    /\ last.size_before = 5
    /\ Len(vectors) = 6
    /\ vectors[6].data.query = AUDIT_QUERY
    /\ last.obs.result.text = "Rhythmus-Korrektur: "

\* C11: every evolve_self call, also one that ends in SystemExit, counts
\* once; the audit fires in a call if and only if the call is the
\* AUDIT_RHYTHM-th, 2*AUDIT_RHYTHM-th, ... call of evolve_self, and the
\* counter is then reset; between calls the counter is the number of calls
\* since the last audit and satisfies 0 <= counter < AUDIT_RHYTHM.  An audit
\* the caller runs directly leaves the counter alone.
C11_AuditEveryRhythm ==
    [][/\ CycleStep =>
              /\ last'.obs.audit_fired = (cycle_calls' = 0)
              /\ cycles_since_last_audit' =
                     (IF last'.obs.audit_fired THEN 0 ELSE cycles_since_last_audit + 1)
              /\ cycles_since_last_audit' = cycle_calls'
              /\ cycles_since_last_audit' >= 0
              /\ cycles_since_last_audit' < AUDIT_RHYTHM
       /\ ~CycleStep => cycles_since_last_audit' = cycles_since_last_audit]_vars

\* C11 witness: the audit fired in the third call, after a call that ended in
\* SystemExit, and the counter is back at zero
C11_Witness ==
    /\ last.op = "evolve_self"
    /\ last.obs.audit_fired
    /\ cycle_calls = 0
    /\ cycles_since_last_audit = 0
    /\ red_code_fired
    /\ last.outcome = "return"

\* C12: the store is append-only.  No step replaces, updates or deletes a
\* record stored earlier, and an add under an id that is already present fails
\* with DuplicateId and leaves the store as it is.
C12_AppendOnly ==
    [][/\ \A i \in 1..Len(vectors) :
              Len(vectors') >= i /\ vectors'[i] = vectors[i]
       /\ (last'.op = "add_vector" /\ HasId(vectors, last'.obs.vector_id)) =>
              /\ last'.outcome = "DuplicateId"
              /\ vectors' = vectors]_vars

\* C13: a cycle whose query vector does not have the dimensionality of the
\* ideal vector fails at once with DimensionMismatch: no vote is taken, the
\* red code protocol is not invoked and the store stays as it was.
C13_DimensionMismatch ==
    (last.op = "evolve_self" /\ Len(probe.query_vector) # Len(ETHICAL_IDEAL_VECTOR)) =>
        /\ last.outcome = "DimensionMismatch"
        /\ last.obs.votes = <<>>
        /\ ~last.obs.red_code_invoked
        /\ Len(vectors) = last.size_before

\* C14: extract_relevant_vectors returns one entry for exactly the stored
\* records whose similarity to the query vector is >= threshold, each with the
\* record's id, text and similarity, ordered by similarity descending and,
\* among equal similarities, in the order of insertion; it returns the empty
\* list, and no error, when no record qualifies.
C14_ExtractRelevant ==
    last.op = "extract_relevant_vectors" =>
        LET res == last.obs.result
            Sim(i) == cosine_similarity(probe.query_vector, vectors[i].data.vector)
            Qualifies == {i \in 1..Len(vectors) : Sim(i) >= probe.threshold}
            Pos(j) == CHOOSE i \in 1..Len(vectors) : vectors[i].id = res[j].id
        IN  /\ last.outcome = "return"
            /\ Len(res) = Cardinality(Qualifies)
            /\ \A j \in 1..Len(res) : \E i \in Qualifies : vectors[i].id = res[j].id
            /\ {Pos(j) : j \in 1..Len(res)} = Qualifies
            /\ \A j \in 1..Len(res) :
                   /\ res[j].relevance = Sim(Pos(j))
                   /\ res[j].commitment = vectors[Pos(j)].data.commitment_text
            /\ \A j, k \in 1..Len(res) :
                   j < k => \/ res[j].relevance > res[k].relevance
                            \/ res[j].relevance = res[k].relevance /\ Pos(j) < Pos(k)
            /\ (Qualifies = {}) => res = <<>>

\* C14 witness: of three records, the third is the most similar and comes
\* first; the first two have a similarity equal to the threshold and follow in
\* the order of insertion
C14_Witness ==
    /\ last.op = "extract_relevant_vectors"
    /\ Len(last.obs.result) = 3
    /\ last.obs.result[1].id = SeedId(2)
    /\ last.obs.result[2].id = SeedId(0)
    /\ last.obs.result[3].id = SeedId(1)
    /\ last.obs.result[2].relevance = probe.threshold
    /\ last.obs.result[3].relevance = probe.threshold

\* C15: when no stored record is relevant to the query vector, the prompt
\* process_query returns holds more than the line of the user query: a
\* statement that no relevant commitment was found.
C15_EmptyRetrievalStated ==
    (/\ last.op = "process_query"
     /\ extract_relevant_vectors(vectors, probe.query_vector, RETRIEVAL_THRESHOLD) = <<>>) =>
        /\ Len(last.obs.prompt) > 1
        /\ last.obs.prompt # <<TextLine(PROMPT_HEAD \o last.obs.user_query)>>

\* The memory line of the prompt for the audit's correction record
HasCorrectionLine(prompt) ==
    \E i \in 1..Len(prompt) :
        prompt[i].kind = "memory" /\ prompt[i].commitment = RESPONSE_AUDIT

\* C16: in every cycle the audit comes before the retrieval, and the retrieval
\* and the vote before the persist.  The prompt is built from the store the
\* audit left, so it shows a correction record the audit of this cycle wrote,
\* and not the record this cycle persists; a record is written behind the
\* audit's if and only if the three votes taken reach the majority; and the
\* cycle after one that returned starts at the audit check with the counter
\* that cycle left.
C16_StepOrder ==
    [][CycleStep =>
          LET obs == last'.obs
              after_audit == SubSeq(vectors', 1, obs.size_after_audit)
              corrected == obs.size_after_audit = Len(vectors) + 1
          IN  /\ obs.size_after_audit \in {Len(vectors), Len(vectors) + 1}
              /\ corrected => obs.audit_fired
              /\ obs.prompt = process_query(after_audit, obs.user_query, obs.query_vector)
              /\ corrected => /\ HasCorrectionLine(obs.prompt)
                              /\ obs.prompt # process_query(vectors, obs.user_query,
                                                            obs.query_vector)
              /\ Len(obs.votes) = Len(CONSENSUS_NODES)
              /\ (Len(vectors') = obs.size_after_audit + 1)
                     = (PassCount(obs.votes) >= CONSENSUS_MAJORITY)
              /\ (Len(vectors') = obs.size_after_audit)
                     = (PassCount(obs.votes) < CONSENSUS_MAJORITY)
              /\ (Len(vectors') > obs.size_after_audit) =>
                     /\ vectors'[Len(vectors')].data.vector = obs.votes[1].vector
                     /\ obs.prompt # process_query(vectors', obs.user_query, obs.query_vector)
              /\ (last.op = "evolve_self" /\ last.outcome = "return") =>
                     obs.audit_fired = (cycles_since_last_audit + 1 >= AUDIT_RHYTHM)]_vars

\* C16 witness: a cycle whose audit wrote a correction record, whose prompt
\* shows it, and which persisted its own record behind it
C16_Witness ==
    /\ last.op = "evolve_self"
    /\ last.obs.audit_fired
    /\ last.obs.size_after_audit = last.size_before + 1
    /\ HasCorrectionLine(last.obs.prompt)
    /\ last.obs.consensus_passed
    /\ Len(vectors) = last.size_before + 2
    /\ vectors[Len(vectors) - 1].data.query = AUDIT_QUERY
    /\ vectors[Len(vectors)].data.query = last.obs.user_query

\* The records the controller wrote, in the order written
ControllerRecords(vs) == SelectSeq(vs, LAMBDA entry : entry.id[1] = "CAUSAL-V-")

\* C17: the n-th record written through _persist_commitment, by a cycle or by
\* an audit, has the id CAUSAL-V-n; the counter equals the number of records
\* written that way, and no two of them share an id.
C17_SequentialIds ==
    LET written == ControllerRecords(vectors)
    IN  /\ Len(written) = commitments_count
        /\ \A n \in 1..Len(written) : written[n].id = <<"CAUSAL-V-", n>>
        /\ \A m, n \in 1..Len(written) : written[m].id = written[n].id => m = n

\* C17 witness: the controller wrote four records, cycle records and an audit's
\* correction among them, behind seeds of the caller
C17_Witness ==
    /\ commitments_count = 4
    /\ \E i \in 1..Len(vectors) : vectors[i].id[1] = "V-00"
    /\ \E i \in 1..Len(vectors) : IsCycleRecord(vectors[i])
    /\ \E i \in 1..Len(vectors) :
           vectors[i].id[1] = "CAUSAL-V-" /\ vectors[i].data.query = AUDIT_QUERY

\* The answer of the producer to the bare query, without retrieved commitments
BareAnswer(user_query) ==
    generate_response(<<TextLine(PROMPT_HEAD \o user_query)>>, user_query)

\* C18: the quorum flow of a cycle is decided by the query and the noise draw
\* alone.  Whether the audit did not fire, fired and reported stable or too
\* few data, or fired and wrote a correction record that the prompt then
\* shows, the commitment vector, the alignment score, every node's vote and
\* the decision are those of the same query and noise on the bare prompt.
C18_AuditDoesNotAffectQuorum ==
    last.op = "evolve_self" =>
        LET obs == last.obs
            commitment_vector == BareAnswer(obs.user_query).commitment_vector
            alignment_score == cosine_similarity(commitment_vector, ETHICAL_IDEAL_VECTOR)
            consensus == _simulate_consensus_check(commitment_vector, alignment_score,
                                                   obs.noise_hit)
        IN  /\ obs.commitment_vector = commitment_vector
            /\ obs.alignment_score = alignment_score
            /\ obs.votes = consensus.votes
            /\ obs.consensus_passed = consensus.consensus_achieved
            /\ (last.outcome = "return") = consensus.consensus_achieved
            /\ obs.red_code_invoked = ~consensus.consensus_achieved

\* C18 witness: the audit of a cycle wrote a correction record, the prompt of
\* the cycle shows it, and the cycle still ends in the lockdown its query
\* leads to
C18_Witness ==
    /\ last.op = "evolve_self"
    /\ last.obs.audit_fired
    /\ last.obs.audit_result.text = "Rhythmus-Korrektur: "
    /\ HasCorrectionLine(last.obs.prompt)
    /\ last.obs.user_query = QUERY_2
    /\ last.outcome = "SystemExit"

\* C19: in the run of the script with its own literals (drift threshold 0.90,
\* seeds V-000, V-001, V-002), the first cycle, on query 1 and query_vector_1,
\* obtains the commitment vector [0.98,0.95,0.88,0.85], reaches consensus and
\* persists a record without a lockdown, and the script goes on to the second
\* cycle; the second cycle, on query 2, obtains [0.1,0.1,0.1,0.1], fails on
\* all three nodes and is the one that triggers the lockdown.
C19_DemoRun ==
    /\ (/\ pc \in {"cycle2", "exited"}
        /\ DRIFT_THRESHOLD = DRIFT_THRESHOLD_DEMO
        /\ last.obs.user_query = QUERY_1
        /\ last.obs.query_vector = <<98, 95, 88, 85>>) =>
           /\ last.obs.commitment_vector = <<98, 95, 88, 85>>
           /\ last.obs.consensus_passed
           /\ Len(vectors) = Len(DemoSeeds) + 1
           /\ ~red_code_fired
           /\ pc = "cycle2"
    /\ (/\ pc = "done"
        /\ DRIFT_THRESHOLD = DRIFT_THRESHOLD_DEMO
        /\ last.obs.user_query = QUERY_2) =>
           /\ last.obs.commitment_vector = <<10, 10, 10, 10>>
           /\ PassCount(last.obs.votes) = 0
           /\ last.outcome = "SystemExit"
           /\ red_code_fired

\* C20: a cycle that ends in the lockdown does not store its rejected vector,
\* but it keeps what its audit wrote.  If the audit fires in that cycle on at
\* least 5 records whose drift is below the threshold, the store at the
\* lockdown is the store before the cycle with the audit's correction record
\* appended, and the counter is one higher; in every other case the store and
\* the counter are those before the cycle.
C20_LockdownKeepsAuditWrite ==
    [][(CycleStep /\ ~last'.obs.consensus_passed) =>
          LET correction_due ==
                  /\ cycles_since_last_audit + 1 >= AUDIT_RHYTHM
                  /\ Len(vectors) >= MIN_AUDIT_SAMPLES
                  /\ get_total_system_drift_score(vectors, ETHICAL_IDEAL_VECTOR)
                         < DRIFT_THRESHOLD
          IN  /\ last'.outcome = "SystemExit"
              /\ \A i \in (Len(vectors) + 1)..Len(vectors') :
                     /\ vectors'[i].data.vector # last'.obs.commitment_vector
                     /\ vectors'[i].data.query = AUDIT_QUERY
              /\ IF correction_due
                 THEN /\ vectors' = Append(vectors, CorrectionRecord(commitments_count))
                      /\ commitments_count' = commitments_count + 1
                 ELSE /\ vectors' = vectors
                      /\ commitments_count' = commitments_count]_vars

\* C20 witness: a cycle ended in the lockdown and its audit had appended the
\* correction record
C20_Witness ==
    /\ last.op = "evolve_self"
    /\ last.outcome = "SystemExit"
    /\ last.obs.red_code_invoked
    /\ Len(vectors) = last.size_before + 1
    /\ vectors[Len(vectors)].data.query = AUDIT_QUERY
    /\ vectors[Len(vectors)].id = CausalId(commitments_count)

=============================================================================
